---- MODULE Spec2Model ----
(***************************************************************************)
(* Model of the Seajets sample-data generator (src/bs_scraper.py) and of   *)
(* the Flask routes that drive it (src/app.py).                            *)
(*                                                                         *)
(* Texts that the program parses or formats (dates, clock times, prices,   *)
(* seat counts) are sequences of one-character strings, so that parsing    *)
(* and formatting are real conversions.  Vessel and category names are     *)
(* opaque strings.  A datetime is its proleptic Gregorian ordinal (the     *)
(* value of datetime.toordinal()); every datetime the program builds from  *)
(* a date text is at midnight.  The wall clock datetime.now() is           *)
(* [day, tod]: the ordinal of today and tod = 0 exactly at midnight,       *)
(* tod = 1 any later instant of that day; this is all that `date > now`    *)
(* and `(date - now).days` depend on.                                      *)
(***************************************************************************)
EXTENDS Integers, Sequences, FiniteSets, TLC

(* ------------------------------ bounds --------------------------------- *)
\* the longest request is MaxSpan + 1 days
MaxSpan == 3
\* the clock advances at most MaxTicks half-days in a behaviour
MaxTicks == 2
\* number of /scrape requests in a behaviour
MaxRequests == 2

(* ------------------------- text <-> numbers ---------------------------- *)
DigitChars == <<"0", "1", "2", "3", "4", "5", "6", "7", "8", "9">>

IsDigit(c) == \E k \in 1..10 : DigitChars[k] = c

DigitVal(c) == (CHOOSE k \in 1..10 : DigitChars[k] = c) - 1

AllDigits(s) == \A k \in 1..Len(s) : IsDigit(s[k])

RECURSIVE ParseInt(_)
\* int(s) of a non-empty all-digit text
ParseInt(s) ==
    IF Len(s) = 0 THEN 0
    ELSE 10 * ParseInt(SubSeq(s, 1, Len(s) - 1)) + DigitVal(s[Len(s)])

RECURSIVE Digits(_)
\* f"{n}" of an integer
Digits(n) ==
    IF n < 0 THEN <<"-">> \o Digits(0 - n)
    ELSE IF n < 10 THEN <<DigitChars[n + 1]>>
    ELSE Digits(n \div 10) \o <<DigitChars[(n % 10) + 1]>>

RECURSIVE ZeroPad(_, _)
\* f"{n:0wd}": left-padded with zeros to width w, never truncated
ZeroPad(s, w) == IF Len(s) >= w THEN s ELSE ZeroPad(<<"0">> \o s, w)

Min(a, b) == IF a < b THEN a ELSE b
Max(a, b) == IF a > b THEN a ELSE b

(* ---------------------- calendar (datetime) ---------------------------- *)
IsLeap(y) == y % 4 = 0 /\ (y % 100 # 0 \/ y % 400 = 0)

DaysInMonth(y, m) ==
    IF m = 2 THEN (IF IsLeap(y) THEN 29 ELSE 28)
    ELSE IF m \in {4, 6, 9, 11} THEN 30 ELSE 31

RECURSIVE DaysBeforeMonth(_, _)
DaysBeforeMonth(y, m) ==
    IF m = 1 THEN 0 ELSE DaysBeforeMonth(y, m - 1) + DaysInMonth(y, m - 1)

DaysBeforeYear(y) ==
    (y - 1) * 365 + (y - 1) \div 4 - (y - 1) \div 100 + (y - 1) \div 400

\* datetime(y, m, d).toordinal()
Ymd2Ord(y, m, d) == DaysBeforeYear(y) + DaysBeforeMonth(y, m) + d

\* datetime.fromordinal(n) as [y, m, d]: the year by 400/100/4/1-year
\* cycles, then the month by walking the months of that year
Ord2Ymd(n) ==
    LET n0   == n - 1
        n400 == n0 \div 146097
        r400 == n0 % 146097
        n100 == r400 \div 36524
        r100 == r400 % 36524
        n4   == r100 \div 1461
        r4   == r100 % 1461
        n1   == r4 \div 365
        r1   == r4 % 365
        yr   == n400 * 400 + 1 + n100 * 100 + n4 * 4 + n1
    IN  IF n1 = 4 \/ n100 = 4
        THEN [y |-> yr - 1, m |-> 12, d |-> 31]
        ELSE LET mo == CHOOSE k \in 1..12 :
                           /\ DaysBeforeMonth(yr, k) <= r1
                           /\ r1 < DaysBeforeMonth(yr, k) + DaysInMonth(yr, k)
             IN  [y |-> yr, m |-> mo, d |-> r1 - DaysBeforeMonth(yr, mo) + 1]

\* datetime.weekday(): Monday = 0 ... Sunday = 6
Weekday(ord) == (ord + 6) % 7

\* Python's None where a text is expected; no str equals it, since the
\* elements of a str are single characters
None == <<"None">>

\* position of the k-th "/" of s, or 0
SlashPos(s, k) ==
    LET ps == {p \in 1..Len(s) : s[p] = "/"}
    IN  IF Cardinality(ps) < k THEN 0
        ELSE CHOOSE p \in ps : Cardinality({q \in ps : q < p}) = k - 1

\* the directive %d: 1..31 in one or two digits, or a space and a digit
MatchDay(f) ==
    \/ Len(f) = 1 /\ IsDigit(f[1]) /\ f[1] # "0"
    \/ Len(f) = 2 /\ AllDigits(f) /\ ParseInt(f) \in 1..31
    \/ Len(f) = 2 /\ f[1] = " " /\ IsDigit(f[2]) /\ f[2] # "0"

\* the directive %m: 1..12 in one or two digits
MatchMonth(f) ==
    \/ Len(f) = 1 /\ IsDigit(f[1]) /\ f[1] # "0"
    \/ Len(f) = 2 /\ AllDigits(f) /\ ParseInt(f) \in 1..12

\* the directive %Y: exactly four digits
MatchYear(f) == Len(f) = 4 /\ AllDigits(f)

\* the fields of a text split at its first two slashes
DateFields(s) ==
    LET p1 == SlashPos(s, 1)
        p2 == SlashPos(s, 2)
    IN  [d |-> SubSeq(s, 1, p1 - 1),
         m |-> SubSeq(s, p1 + 1, p2 - 1),
         y |-> SubSeq(s, p2 + 1, Len(s))]

\* whether datetime.strptime(s, "%d/%m/%Y") returns (it raises TypeError
\* for None and ValueError for any other text this is false of)
StrptimeOk(s) ==
    /\ s # None
    /\ SlashPos(s, 2) # 0
    /\ LET f == DateFields(s)
       IN  /\ MatchDay(f.d) /\ MatchMonth(f.m) /\ MatchYear(f.y)
           /\ LET dd == ParseInt(SelectSeq(f.d, IsDigit))
                  mm == ParseInt(f.m)
                  yy == ParseInt(f.y)
              IN  yy >= 1 /\ dd <= DaysInMonth(yy, mm)

\* datetime.strptime(s, "%d/%m/%Y") as [y, m, d], for StrptimeOk(s)
StrptimeYmd(s) ==
    LET f == DateFields(s)
    IN  [y |-> ParseInt(f.y), m |-> ParseInt(f.m),
         d |-> ParseInt(SelectSeq(f.d, IsDigit))]

\* the ordinal of datetime.strptime(s, "%d/%m/%Y"), for StrptimeOk(s)
Strptime(s) ==
    LET t == StrptimeYmd(s) IN Ymd2Ord(t.y, t.m, t.d)

\* datetime.fromordinal(ord).strftime("%d/%m/%Y")
Strftime(ord) ==
    LET t == Ord2Ymd(ord)
    IN  ZeroPad(Digits(t.d), 2) \o <<"/">> \o ZeroPad(Digits(t.m), 2)
            \o <<"/">> \o ZeroPad(Digits(t.y), 4)

(* --------------------- SeajetsScraper: pure parts ---------------------- *)
vessels == <<"Champion Jet 1", "Champion Jet 2", "Tera Jet", "Super Jet">>

seat_categories ==
    << [name |-> "Economy",  total |-> 100, price |-> 45],
       [name |-> "Business", total |-> 50,  price |-> 75],
       [name |-> "VIP",      total |-> 20,  price |-> 120],
       [name |-> "Premium",  total |-> 10,  price |-> 180] >>

\* the keys of an itinerary dict and of a seat dict, in insertion order
ItineraryKeys ==
    <<"Date", "Vessel", "Departure Time", "Arrival Time", "Duration",
      "Price", "Available">>

SeatKeys == <<"Date", "Vessel", "Category", "Price", "Available Seats">>

RECURSIVE DatesFrom(_, _)
\* the while loop of date_range: current_date runs from cur while it is
\* <= end_date, one day at a time
DatesFrom(cur, end) ==
    IF cur <= end THEN <<Strftime(cur)>> \o DatesFrom(cur + 1, end) ELSE <<>>

\* the loop stops one day early
date_range_exclusive(start_date_str, end_date_str) ==
    DatesFrom(Strptime(start_date_str), Strptime(end_date_str) - 1)

date_range(start_date_str, end_date_str) ==
    DatesFrom(Strptime(start_date_str), Strptime(end_date_str))

\* only Sunday counts as the weekend
NoService_sunday(date_obj) == Weekday(date_obj) > 5

\* date_obj.weekday() >= 5: the no-service test of generate_sample_data
NoService(date_obj) == Weekday(date_obj) >= 5

\* the lower limit of 1 is missing
NumItineraries_nofloor(date_obj) == Min(3, Ord2Ymd(date_obj).d % 4)

\* one more than the remainder
NumItineraries_plus1(date_obj) == Min(3, 1 + (Ord2Ymd(date_obj).d % 4))

\* min(3, max(1, date_obj.day % 4))
NumItineraries(date_obj) == Min(3, Max(1, Ord2Ymd(date_obj).d % 4))

\* every slot gets the first vessel
VesselAt_first(i) == vessels[1]

\* every other vessel of the list
VesselAt_stride(i) == vessels[((2 * i) % Len(vessels)) + 1]

\* vessels[i % len(vessels)] (sequences are 1-based here)
VesselAt(i) == vessels[(i % Len(vessels)) + 1]

\* f"{(7 + i * 3):02d}:00" and f"{(10 + i * 3):02d}:30"
DepartureTime(i) == ZeroPad(Digits(7 + i * 3), 2) \o <<":", "0", "0">>

\* the arrival is put on the full hour
ArrivalTime_fullhour(i) == ZeroPad(Digits(10 + i * 3), 2) \o <<":", "0", "0">>

ArrivalTime(i) == ZeroPad(Digits(10 + i * 3), 2) \o <<":", "3", "0">>

\* a departure today counts as still to come
IsAvailable_today(date_obj, clock) == date_obj >= clock.day

\* date_obj > datetime.now(), date_obj at midnight
IsAvailable(date_obj, clock) ==
    \/ date_obj > clock.day
    \/ date_obj = clock.day /\ 0 > clock.tod

\* the peak-season test, made in both generators
PeakSeason(date_obj) == Ord2Ymd(date_obj).m >= 6 /\ Ord2Ymd(date_obj).m <= 9

\* Friday is taken for the weekend
BasePrice_friday(i, date_obj) ==
    45 + (i * 15)
       + (IF Weekday(date_obj) >= 4 THEN 20 ELSE 0)
       + (IF PeakSeason(date_obj) THEN 30 ELSE 0)

\* base_price of slot i after the weekend and the peak-season additions
BasePrice(i, date_obj) ==
    45 + (i * 15)
       + (IF Weekday(date_obj) >= 5 THEN 20 ELSE 0)
       + (IF PeakSeason(date_obj) THEN 30 ELSE 0)

\* f"€{n}"
PriceText(n) == <<"€">> \o Digits(n)

itinerary_data(date_str, i, clock) ==
    LET date_obj == Strptime(date_str)
    IN  [k \in {ItineraryKeys[j] : j \in 1..Len(ItineraryKeys)} |->
            CASE k = "Date"           -> date_str
              [] k = "Vessel"         -> VesselAt(i)
              [] k = "Departure Time" -> DepartureTime(i)
              [] k = "Arrival Time"   -> ArrivalTime(i)
              [] k = "Duration"       -> "3h 30m"
              [] k = "Price"          -> PriceText(BasePrice(i, date_obj))
              [] k = "Available"      -> IsAvailable(date_obj, clock)]

\* (date_obj - datetime.now()).days: the timedelta is normalised so that
\* its seconds are >= 0, hence days is the floor
DaysUntil(date_obj, clock) ==
    date_obj - clock.day - (IF clock.tod > 0 THEN 1 ELSE 0)

\* the lower limit of 0.1 is missing
AvailableSeats_nofloor(total, du) == (total * Min(285, 10 * du)) \div 300

\* int(total * min(0.95, max(0.1, days_until / 30))), in 300ths; the
\* floating-point products agree with the exact ones for the four totals
AvailableSeats(total, du) ==
    (total * Min(285, Max(30, 10 * du))) \div 300

\* int(price * seasonal_multiplier * weekend_multiplier), in 100ths
AdjustedPrice(price, date_obj) ==
    (price * (IF PeakSeason(date_obj) THEN 15 ELSE 10)
           * (IF Weekday(date_obj) >= 5 THEN 12 ELSE 10)) \div 100

seat_data(date_str, vessel_name, category, du) ==
    [k \in {SeatKeys[j] : j \in 1..Len(SeatKeys)} |->
        CASE k = "Date"     -> date_str
          [] k = "Vessel"   -> vessel_name
          [] k = "Category" -> category.name
          [] k = "Price"    ->
                 PriceText(AdjustedPrice(category.price, Strptime(date_str)))
          [] k = "Available Seats" ->
                 Digits(AvailableSeats(category.total, du)) \o <<"/">>
                     \o Digits(category.total)]

\* the categories are walked from the last to the first
SeatRows_reversed(date_str, vessel_name, du) ==
    [c \in 1..Len(seat_categories) |->
        seat_data(date_str, vessel_name,
                  seat_categories[Len(seat_categories) + 1 - c], du)]

\* the rows generate_sample_seat_data appends: one per category, in order
SeatRows(date_str, vessel_name, du) ==
    [c \in 1..Len(seat_categories) |->
        seat_data(date_str, vessel_name, seat_categories[c], du)]

\* pd.DataFrame(data) if data else pd.DataFrame(): the columns of a frame
\* built from dicts are their keys; a frame built from nothing has none
DataFrame(data, keys) ==
    IF Len(data) > 0 THEN [columns |-> keys, rows |-> data]
    ELSE [columns |-> <<>>, rows |-> <<>>]

\* df.to_dict('records') if not df.empty else []
ToRecords(df) ==
    IF Len(df.rows) = 0 \/ Len(df.columns) = 0 THEN <<>> ELSE df.rows

(* ------------------------------ inputs --------------------------------- *)
\* the text DD/MM/YYYY of a calendar date
DateText(y, m, d) == Strftime(Ymd2Ord(y, m, d))

\* first days of the requests: around a year end, a leap day, the end of a
\* February, a mid-month day and the start of the peak season
StartDays ==
    { DateText(2024, 12, 30), DateText(2024, 2, 28), DateText(2025, 2, 27),
      DateText(2025, 1, 14), DateText(2025, 5, 30), DateText(2025, 5, 31) }

\* texts strptime accepts without their being in the DD/MM/YYYY layout
LooseTexts == { <<"2", "/", "6", "/", "2", "0", "2", "5">> }

\* texts strptime rejects, and a missing field
BadTexts ==
    { <<"3", "1", "/", "0", "2", "/", "2", "0", "2", "5">>,
      <<"2", "0", "2", "5", "-", "0", "6", "-", "0", "2">>,
      None }

\* the (start_date, end_date) pairs of the first /scrape request of a
\* session
FirstRequests ==
    {<<s, Strftime(Strptime(s) + k)>> :
        s \in StartDays \cup LooseTexts, k \in (0 - 1)..MaxSpan}
    \cup (BadTexts \X {DateText(2025, 6, 2)})
    \cup ({DateText(2025, 6, 2)} \X BadTexts)

\* the pairs of the requests that follow it: two weekdays, a weekend, an
\* inverted range, a text that does not parse and a missing date
FollowUps ==
    { <<DateText(2025, 6, 2), DateText(2025, 6, 3)>>,
      <<DateText(2025, 5, 31), DateText(2025, 6, 1)>>,
      <<DateText(2025, 6, 3), DateText(2025, 6, 2)>>,
      <<<<"2", "0", "2", "5", "-", "0", "6", "-", "0", "2">>, DateText(2025, 6, 2)>>,
      <<None, DateText(2025, 6, 2)>> }

\* the pairs the n-th request (counted from 0) is drawn from
Requests(n) == IF n = 0 THEN FirstRequests ELSE FollowUps

\* the instants the system may be started at
StartClocks ==
    { [day |-> Ymd2Ord(2024, 12, 31), tod |-> 1],
      [day |-> Ymd2Ord(2025, 6, 1),   tod |-> 1] }

(* ------------------------------ state ---------------------------------- *)
VARIABLES
    now,              \* datetime.now(): [day, tod]
    ticks,            \* how often the clock has advanced
    nreq,             \* /scrape requests answered; for a scraper used
                      \* directly, scrape_seajets calls made
    pc,               \* position of the /scrape handler, "idle" between requests
    start_date,       \* arguments of scrape_seajets
    end_date,
    dates_to_scrape,  \* scrape_seajets: the list being iterated
    date_idx,         \* scrape_seajets: position of the for loop (1-based)
    num_itineraries,  \* generate_sample_data: locals
    i,
    days_until,       \* generate_sample_seat_data: local of the last call
    itineraries_data, \* the scraper's accumulators
    seats_data,
    result,           \* the dict scrape_seajets returned
    session,          \* the Flask session: [has, results]
    response          \* the last HTTP response: [status, body, files]

vars ==
    <<now, ticks, nreq, pc, start_date, end_date, dates_to_scrape, date_idx,
      num_itineraries, i, days_until, itineraries_data, seats_data, result,
      session, response>>


NoFrames == [itineraries |-> DataFrame(<<>>, <<>>), seats |-> DataFrame(<<>>, <<>>)]

NoRecords == [itineraries |-> <<>>, seats |-> <<>>]

\* a cell of a CSV line: str(True) / str(False) for the boolean column, the
\* text itself for the others (none holds a comma, a quote or a line break)
CsvCell(column, v) ==
    IF column = "Available" THEN (IF v THEN "True" ELSE "False") ELSE v

\* df.to_csv(index=False): the header line and one line per row, the cells
\* in column order
to_csv(df) ==
    [header |-> df.columns,
     lines  |-> [k \in 1..Len(df.rows) |->
                    [c \in 1..Len(df.columns) |->
                        CsvCell(df.columns[c], df.rows[k][df.columns[c]])]]]

\* the files of an export response; none in any other response
NoFiles == [itineraries_csv |-> to_csv(DataFrame(<<>>, <<>>)),
            seats_csv |-> to_csv(DataFrame(<<>>, <<>>))]

\* the accumulator is carried over from the call before
reset_data_kept(old) == old

\* "Reset data containers" of scrape_seajets: whatever the accumulator
\* held, it is the empty list afterwards
reset_data(old) == <<>>

Init ==
    /\ now \in StartClocks
    /\ ticks = 0
    /\ nreq = 0
    /\ pc = "idle"
    /\ start_date = None
    /\ end_date = None
    /\ dates_to_scrape = <<>>
    /\ date_idx = 0
    /\ num_itineraries = 0
    /\ i = 0
    /\ days_until = 0
    /\ itineraries_data = <<>>
    /\ seats_data = <<>>
    /\ result = NoFrames
    /\ session = [has |-> FALSE, results |-> NoRecords]
    /\ response = [status |-> 0, body |-> "none", files |-> NoFiles]

(* ------------------------------ clock ---------------------------------- *)
\* time passes: from midnight into the day, or from the day to the next
\* midnight
Tick ==
    /\ ticks < MaxTicks
    /\ ticks' = ticks + 1
    /\ now' = IF now.tod = 0 THEN [now EXCEPT !.tod = 1]
              ELSE [day |-> now.day + 1, tod |-> 0]
    /\ UNCHANGED <<nreq, pc, start_date, end_date, dates_to_scrape, date_idx,
                   num_itineraries, i, days_until, itineraries_data,
                   seats_data, result, session, response>>

(* --------------------------- POST /scrape ------------------------------ *)
\* the validation of scrape(): strptime of start_date, then of end_date;
\* "ValueError", "TypeError" or "ok"
Validate(s, e) ==
    IF s = None THEN "TypeError"
    ELSE IF ~StrptimeOk(s) THEN "ValueError"
    ELSE IF e = None THEN "TypeError"
    ELSE IF ~StrptimeOk(e) THEN "ValueError"
    ELSE "ok"

\* a date does not parse: 400 and the invalid-format message
ScrapeInvalid(s, e) ==
    /\ pc = "idle" /\ nreq < MaxRequests
    /\ Validate(s, e) = "ValueError"
    /\ response' = [status |-> 400, body |-> "Invalid date format",
                    files |-> NoFiles]
    /\ nreq' = nreq + 1
    /\ UNCHANGED <<now, ticks, pc, start_date, end_date, dates_to_scrape,
                   date_idx, num_itineraries, i, days_until,
                   itineraries_data, seats_data, result, session>>

\* strptime raises TypeError for a missing date: the outer handler answers
\* 500 with the text of the exception
ScrapeError(s, e) ==
    /\ pc = "idle" /\ nreq < MaxRequests
    /\ Validate(s, e) = "TypeError"
    /\ response' = [status |-> 500, body |-> "strptime() argument 1 must be str",
                    files |-> NoFiles]
    /\ nreq' = nreq + 1
    /\ UNCHANGED <<now, ticks, pc, start_date, end_date, dates_to_scrape,
                   date_idx, num_itineraries, i, days_until,
                   itineraries_data, seats_data, result, session>>

\* both dates parse: a new SeajetsScraper, and scrape_seajets up to its loop
ScrapeStart(s, e) ==
    /\ pc = "idle" /\ nreq < MaxRequests
    /\ Validate(s, e) = "ok"
    /\ start_date' = s
    /\ end_date' = e
    /\ itineraries_data' = reset_data(<<>>)
    /\ seats_data' = reset_data(<<>>)
    /\ dates_to_scrape' = date_range(s, e)
    /\ date_idx' = 1
    /\ pc' = "dates"
    /\ UNCHANGED <<now, ticks, nreq, num_itineraries, i, days_until, result,
                   session, response>>

\* the date the for loop of scrape_seajets is at
date_str == dates_to_scrape[date_idx]

\* generate_sample_data returns at once for a Saturday or a Sunday
SkipWeekend ==
    /\ pc = "dates" /\ date_idx <= Len(dates_to_scrape)
    /\ NoService(Strptime(date_str))
    /\ date_idx' = date_idx + 1
    /\ UNCHANGED <<now, ticks, nreq, pc, start_date, end_date,
                   dates_to_scrape, num_itineraries, i, days_until,
                   itineraries_data, seats_data, result, session, response>>

\* generate_sample_data enters its loop over the slots of the day
BeginDate ==
    /\ pc = "dates" /\ date_idx <= Len(dates_to_scrape)
    /\ ~NoService(Strptime(date_str))
    /\ i' = 0
    /\ IF NumItineraries(Strptime(date_str)) > 0
       THEN /\ num_itineraries' = NumItineraries(Strptime(date_str))
            /\ pc' = "slot"
            /\ UNCHANGED date_idx
       ELSE \* range(0) is empty: the loop body never runs
            /\ num_itineraries' = 0
            /\ date_idx' = date_idx + 1
            /\ UNCHANGED pc
    /\ UNCHANGED <<now, ticks, nreq, start_date, end_date, dates_to_scrape,
                   days_until, itineraries_data, seats_data,
                   result, session, response>>

\* the end of an iteration of the slot loop: the next slot, or back to the
\* loop over the dates
NextSlot ==
    IF i + 1 < num_itineraries
    THEN /\ i' = i + 1
         /\ pc' = "slot"
         /\ UNCHANGED <<num_itineraries, date_idx>>
    ELSE /\ i' = 0
         /\ num_itineraries' = 0
         /\ date_idx' = date_idx + 1
         /\ pc' = "dates"

\* one iteration of the slot loop up to the itinerary's append; the clock is
\* read for is_available
GenerateItinerary ==
    /\ pc = "slot"
    /\ LET row == itinerary_data(date_str, i, now)
       IN  /\ itineraries_data' = Append(itineraries_data, row)
           /\ IF row["Available"]
              THEN /\ pc' = "seats"
                   /\ UNCHANGED <<num_itineraries, i, date_idx>>
              ELSE NextSlot
    /\ UNCHANGED <<now, ticks, nreq, start_date, end_date, dates_to_scrape,
                   days_until, seats_data, result, session, response>>

\* generate_sample_seat_data for the itinerary just appended; the clock is
\* read again for days_until
GenerateSeats ==
    /\ pc = "seats"
    /\ days_until' = DaysUntil(Strptime(date_str), now)
    /\ seats_data' = seats_data \o SeatRows(date_str, VesselAt(i), days_until')
    /\ NextSlot
    /\ UNCHANGED <<now, ticks, nreq, start_date, end_date, dates_to_scrape,
                   itineraries_data, result, session, response>>

\* scrape_seajets after its loop: the two DataFrames
Return ==
    /\ pc = "dates" /\ date_idx > Len(dates_to_scrape)
    /\ result' = [itineraries |-> DataFrame(itineraries_data, ItineraryKeys),
                  seats |-> DataFrame(seats_data, SeatKeys)]
    /\ pc' = "returned"
    /\ UNCHANGED <<now, ticks, nreq, start_date, end_date, dates_to_scrape,
                   date_idx, num_itineraries, i, days_until,
                   itineraries_data, seats_data, session, response>>

\* scrape() stores the records in the session and answers; its locals and
\* the scraper go out of scope
Store ==
    /\ pc = "returned"
    /\ session' = [has |-> TRUE,
                   results |-> [itineraries |-> ToRecords(result.itineraries),
                                seats |-> ToRecords(result.seats)]]
    /\ response' = [status |-> 200, body |-> "success", files |-> NoFiles]
    /\ nreq' = nreq + 1
    /\ pc' = "idle"
    /\ start_date' = None
    /\ end_date' = None
    /\ dates_to_scrape' = <<>>
    /\ date_idx' = 0
    /\ days_until' = 0
    /\ itineraries_data' = <<>>
    /\ seats_data' = <<>>
    /\ result' = NoFrames
    /\ UNCHANGED <<now, ticks, num_itineraries, i>>

(* ----------------------- GET /results, POST /export_csv ---------------- *)
\* results(): the page with the stored records, or the index page with an
\* error when nothing is stored
Results ==
    /\ pc = "idle"
    /\ response' = IF session.has
                   THEN [status |-> 200, body |-> "results.html",
                         files |-> NoFiles]
                   ELSE [status |-> 200,
                         body |-> "No results found. Please run a scrape first.",
                         files |-> NoFiles]
    /\ UNCHANGED <<now, ticks, nreq, pc, start_date, end_date,
                   dates_to_scrape, date_idx, num_itineraries, i, days_until,
                   itineraries_data, seats_data, result, session>>

\* the export takes the stored results out of the session
ExportCsv_consuming ==
    /\ pc = "idle"
    /\ response' = IF session.has
                   THEN [status |-> 200, body |-> "export",
                         files |-> [itineraries_csv |->
                                        to_csv(DataFrame(session.results.itineraries,
                                                         ItineraryKeys)),
                                    seats_csv |->
                                        to_csv(DataFrame(session.results.seats,
                                                         SeatKeys))]]
                   ELSE [status |-> 400, body |-> "No results found",
                         files |-> NoFiles]
    /\ session' = [has |-> FALSE, results |-> NoRecords]
    /\ UNCHANGED <<now, ticks, nreq, pc, start_date, end_date,
                   dates_to_scrape, date_idx, num_itineraries, i, days_until,
                   itineraries_data, seats_data, result>>

\* export_csv(): 400 when nothing is stored, else the stored records as CSV
\* files (the spreadsheet holds the same two tables)
ExportCsv ==
    /\ pc = "idle"
    /\ response' = IF session.has
                   THEN [status |-> 200, body |-> "export",
                         files |-> [itineraries_csv |->
                                        to_csv(DataFrame(session.results.itineraries,
                                                         ItineraryKeys)),
                                    seats_csv |->
                                        to_csv(DataFrame(session.results.seats,
                                                         SeatKeys))]]
                   ELSE [status |-> 400, body |-> "No results found",
                         files |-> NoFiles]
    /\ UNCHANGED <<now, ticks, nreq, pc, start_date, end_date,
                   dates_to_scrape, date_idx, num_itineraries, i, days_until,
                   itineraries_data, seats_data, result, session>>

Next ==
    \/ Tick
    \/ \E r \in Requests(nreq) : ScrapeInvalid(r[1], r[2])
    \/ \E r \in Requests(nreq) : ScrapeError(r[1], r[2])
    \/ \E r \in Requests(nreq) : ScrapeStart(r[1], r[2])
    \/ SkipWeekend
    \/ BeginDate
    \/ GenerateItinerary
    \/ GenerateSeats
    \/ Return
    \/ Store
    \/ Results
    \/ ExportCsv

Spec == Init /\ [][Next]_vars

(* ------------------- one scraper object, called directly -------------- *)
\* scrape_seajets called again on the same SeajetsScraper, after the call
\* before has returned or raised: the accumulators are reset, then
\* date_range; the dict returned before stays with the caller
Invoke(s, e) ==
    /\ pc \in {"idle", "returned"} /\ nreq < MaxRequests
    /\ Validate(s, e) = "ok"
    /\ start_date' = s
    /\ end_date' = e
    /\ itineraries_data' = reset_data(itineraries_data)
    /\ seats_data' = reset_data(seats_data)
    /\ dates_to_scrape' = date_range(s, e)
    /\ date_idx' = 1
    /\ nreq' = nreq + 1
    /\ pc' = "dates"
    /\ UNCHANGED <<now, ticks, num_itineraries, i, days_until, result,
                   session, response>>

\* the same call with a date that strptime refuses: the accumulators are
\* reset, then date_range raises and the call ends without a result
InvokeRaises(s, e) ==
    /\ pc \in {"idle", "returned"} /\ nreq < MaxRequests
    /\ Validate(s, e) # "ok"
    /\ start_date' = s
    /\ end_date' = e
    /\ itineraries_data' = reset_data(itineraries_data)
    /\ seats_data' = reset_data(seats_data)
    /\ dates_to_scrape' = <<>>
    /\ date_idx' = 0
    /\ nreq' = nreq + 1
    /\ pc' = "idle"
    /\ UNCHANGED <<now, ticks, num_itineraries, i, days_until, result,
                   session, response>>

NextReuse ==
    \/ Tick
    \/ \E r \in Requests(nreq) : Invoke(r[1], r[2])
    \/ \E r \in Requests(nreq) : InvokeRaises(r[1], r[2])
    \/ SkipWeekend
    \/ BeginDate
    \/ GenerateItinerary
    \/ GenerateSeats
    \/ Return

SpecReuse == Init /\ [][NextReuse]_vars

(* ===================== properties of the generator ===================== *)
\* the calendar day after [y, m, d], by the rules of the calendar alone
NextCalendarDay(t) ==
    IF t.d < DaysInMonth(t.y, t.m) THEN [t EXCEPT !.d = t.d + 1]
    ELSE IF t.m < 12 THEN [y |-> t.y, m |-> t.m + 1, d |-> 1]
    ELSE [y |-> t.y + 1, m |-> 1, d |-> 1]

\* [y, m, d] order
CivilLeq(a, b) ==
    \/ a.y < b.y
    \/ a.y = b.y /\ a.m < b.m
    \/ a.y = b.y /\ a.m = b.m /\ a.d <= b.d

\* the day of the week of [y, m, d] from the civil date alone (Sakamoto's
\* method): 0 = Sunday ... 6 = Saturday
CivilDayOfWeek(t) ==
    LET shift == <<0, 3, 2, 5, 0, 3, 5, 1, 4, 6, 2, 4>>
        yy    == IF t.m < 3 THEN t.y - 1 ELSE t.y
    IN  (yy + yy \div 4 - yy \div 100 + yy \div 400 + shift[t.m] + t.d) % 7

CivilWeekend(t) == CivilDayOfWeek(t) \in {0, 6}

\* the texts of the layout DD/MM/YYYY
IsDateText(s) ==
    /\ Len(s) = 10
    /\ s[3] = "/" /\ s[6] = "/"
    /\ \A k \in {1, 2, 4, 5, 7, 8, 9, 10} : IsDigit(s[k])

\* scrape_seajets is running or has just returned: its locals are in scope
InScrape == pc \in {"dates", "slot", "seats", "returned"}

\* C1: date_range(start, end) is the days from start to end inclusive, one
\* text per calendar day in increasing order, across month and year ends;
\* its length is the inclusive day count, and it is empty when start > end.
C1_DateRangeInclusive ==
    InScrape =>
        LET s == StrptimeYmd(start_date)
            e == StrptimeYmd(end_date)
            L == dates_to_scrape
        IN  /\ \A k \in 1..Len(L) : IsDateText(L[k])
            /\ \A k \in 1..(Len(L) - 1) :
                   StrptimeYmd(L[k + 1]) = NextCalendarDay(StrptimeYmd(L[k]))
            /\ CivilLeq(s, e) =>
                   /\ Len(L) = Ymd2Ord(e.y, e.m, e.d) - Ymd2Ord(s.y, s.m, s.d) + 1
                   /\ StrptimeYmd(L[1]) = s
                   /\ StrptimeYmd(L[Len(L)]) = e
            /\ ~CivilLeq(s, e) => L = <<>>

\* a range of several days that crosses a year end
C1_Witness ==
    /\ InScrape
    /\ Len(dates_to_scrape) >= 3
    /\ StrptimeYmd(dates_to_scrape[1]).y
           < StrptimeYmd(dates_to_scrape[Len(dates_to_scrape)]).y

\* the rows of a sequence of dicts, as a set
RowSet(rows) == {rows[k] : k \in 1..Len(rows)}

\* C2: no itinerary record and no seat record, in the accumulators, in the
\* returned tables or in the stored results, is dated a Saturday or Sunday.
C2_NoWeekendRecords ==
    \A r \in RowSet(itineraries_data) \cup RowSet(seats_data)
             \cup RowSet(result.itineraries.rows) \cup RowSet(result.seats.rows)
             \cup RowSet(session.results.itineraries)
             \cup RowSet(session.results.seats) :
        ~CivilWeekend(StrptimeYmd(r["Date"]))

\* a scrape over a range with a weekend day in it has returned records
C2_Witness ==
    /\ pc = "returned"
    /\ \E k \in 1..Len(dates_to_scrape) :
           CivilWeekend(StrptimeYmd(dates_to_scrape[k]))
    /\ Len(result.itineraries.rows) > 0
    /\ Len(result.seats.rows) > 0

\* the rows of a table dated d, in table order
RowsOn(rows, d) ==
    LET On(r) == r["Date"] = d IN SelectSeq(rows, On)

\* the returned itineraries dated d
ItinerariesOn(d) == RowsOn(result.itineraries.rows, d)

\* the dates of the finished scrape that are not weekend days
ServedDates ==
    {dates_to_scrape[k] : k \in 1..Len(dates_to_scrape)}
        \ {d \in {dates_to_scrape[k] : k \in 1..Len(dates_to_scrape)} :
               CivilWeekend(StrptimeYmd(d))}

\* C3: for every non-weekend date exactly n itineraries are generated,
\* n = max(1, day mod 4) capped at 3: 3 for day 15, 1 for day 1, 1 for a
\* day divisible by 4; n is always between 1 and 3.
C3_SlotCount ==
    pc = "returned" =>
        \A d \in ServedDates :
            LET day == StrptimeYmd(d).d
                n   == Len(ItinerariesOn(d))
            IN  /\ n = Min(3, Max(1, day % 4))
                /\ n \in 1..3
                /\ day = 15 => n = 3
                /\ day = 1 => n = 1
                /\ day % 4 = 0 => n = 1

\* a scrape that covered a 15th, a 1st and a day divisible by 4 is not in
\* reach of one request; the 15th with its three itineraries is
C3_Witness ==
    /\ pc = "returned"
    /\ \E d \in ServedDates :
           StrptimeYmd(d).d = 15 /\ Len(ItinerariesOn(d)) = 3

\* C4 as stated: the count is 1 + (day mod 4), capped at 3.
C4_Original ==
    pc = "returned" =>
        \A d \in ServedDates :
            Len(ItinerariesOn(d)) = Min(3, 1 + (StrptimeYmd(d).d % 4))

\* C4 amended: the count is day mod 4, and 1 when day mod 4 is 0 (so it is
\* one less than 1 + (day mod 4) whenever day mod 4 is 1 or 2).
C4_SlotCountAmended ==
    pc = "returned" =>
        \A d \in ServedDates :
            LET rem == StrptimeYmd(d).d % 4
            IN  Len(ItinerariesOn(d)) = (IF rem = 0 THEN 1 ELSE rem)

\* a day with remainder 2 got two itineraries, not three
C4_Witness ==
    /\ pc = "returned"
    /\ \E d \in ServedDates :
           StrptimeYmd(d).d % 4 = 2 /\ Len(ItinerariesOn(d)) = 2

\* the positions of the returned itineraries with the date and vessel of r
Matches(r) ==
    {k \in 1..Len(result.itineraries.rows) :
        /\ result.itineraries.rows[k]["Date"] = r["Date"]
        /\ result.itineraries.rows[k]["Vessel"] = r["Vessel"]}

\* C5: in every result each seat record's (Date, Vessel) matches exactly one
\* itinerary record, which is available; no two itineraries of a date share
\* a vessel.
C5_SeatsMatchOneItinerary ==
    pc = "returned" =>
        /\ \A s \in RowSet(result.seats.rows) :
               /\ Cardinality(Matches(s)) = 1
               /\ \A k \in Matches(s) : result.itineraries.rows[k]["Available"]
        /\ \A r \in RowSet(result.itineraries.rows) : Cardinality(Matches(r)) = 1

\* a result with seat records for a date that has several itineraries
C5_Witness ==
    /\ pc = "returned"
    /\ \E s \in RowSet(result.seats.rows) : Len(ItinerariesOn(s["Date"])) >= 2

\* the categories of the seat records of rows that go with itinerary r, in
\* table order
CategoriesOf(rows, r) ==
    LET Same(s) == s["Date"] = r["Date"] /\ s["Vessel"] = r["Vessel"]
        mine    == SelectSeq(rows, Same)
    IN  [k \in 1..Len(mine) |-> mine[k]["Category"]]

\* what C6 says of one step: an itinerary appended in it is available iff its
\* date is after the clock read in it, and a result returned in it holds the
\* four categories in order for an available itinerary, none for another
C6_Step ==
    /\ Len(itineraries_data') = Len(itineraries_data) + 1 =>
           LET r == itineraries_data'[Len(itineraries_data')]
           IN  r["Available"] <=> (Strptime(r["Date"]) >= now.day + 1)
    /\ pc' = "returned" =>
           \A r \in RowSet(result'.itineraries.rows) :
               CategoriesOf(result'.seats.rows, r) =
                   (IF r["Available"]
                    THEN <<"Economy", "Business", "VIP", "Premium">>
                    ELSE <<>>)

\* C6: an itinerary is available iff its date (at midnight) is strictly after
\* the time of its generation, so not when dated today or earlier; an
\* available itinerary has exactly four seat records, Economy, Business, VIP,
\* Premium in this order, an unavailable one has none.
C6_AvailabilityAndSeats == [][C6_Step]_vars

\* a result with an available itinerary and one dated today, unavailable
C6_Witness ==
    /\ pc = "returned"
    /\ \E r \in RowSet(result.itineraries.rows) : r["Available"]
    /\ \E r \in RowSet(result.itineraries.rows) :
           ~r["Available"] /\ Strptime(r["Date"]) = now.day

\* the capacity of a category
TotalOf(name) ==
    LET c == CHOOSE c \in 1..Len(seat_categories) : seat_categories[c].name = name
    IN  seat_categories[c].total

\* C7: in every seat record the count before the slash of 'Available Seats'
\* is between floor(0.10 * total) and total, total being the capacity of the
\* record's category (100, 50, 20 or 10), whatever days-until is.
C7_SeatCountBounds ==
    \A r \in RowSet(seats_data) \cup RowSet(result.seats.rows)
             \cup RowSet(session.results.seats) :
        LET txt   == r["Available Seats"]
            p     == SlashPos(txt, 1)
            count == SubSeq(txt, 1, p - 1)
            total == SubSeq(txt, p + 1, Len(txt))
        IN  /\ p > 1 /\ p < Len(txt)
            /\ AllDigits(count) /\ AllDigits(total)
            /\ ParseInt(total) = TotalOf(r["Category"])
            /\ ParseInt(total) \in {100, 50, 20, 10}
            /\ (10 * ParseInt(total)) \div 100 <= ParseInt(count)
            /\ ParseInt(count) <= ParseInt(total)

\* seat records were computed after the clock had passed the midnight of
\* their date: days-until is negative
C7_Witness ==
    /\ InScrape
    /\ days_until < 0
    /\ Len(seats_data) >= 4
    /\ seats_data[Len(seats_data)]["Available Seats"] = <<"1", "/", "1", "0">>

\* the slot index of row k of a table: the rows of its date before it
SlotOf(rows, k) ==
    Cardinality({j \in 1..(k - 1) : rows[j]["Date"] = rows[k]["Date"]})

\* the minutes since midnight of a text HH:MM
ClockMinutes(txt) ==
    ParseInt(SubSeq(txt, 1, 2)) * 60 + ParseInt(SubSeq(txt, 4, 5))

\* slot i takes the vessel at index i mod 4 and departs at 07:00 + i * 3h
C8_General ==
    \A k \in 1..Len(result.itineraries.rows) :
        LET r    == result.itineraries.rows[k]
            slot == SlotOf(result.itineraries.rows, k)
            dep  == r["Departure Time"]
        IN  /\ r["Vessel"] = vessels[(slot % 4) + 1]
            /\ Len(dep) = 5 /\ dep[3] = ":"
            /\ AllDigits(SubSeq(dep, 1, 2)) /\ AllDigits(SubSeq(dep, 4, 5))
            /\ ClockMinutes(dep) = 7 * 60 + slot * 180

\* the vessels and the departures of the returned itineraries dated d
VesselsOn(d) == [k \in 1..Len(ItinerariesOn(d)) |-> ItinerariesOn(d)[k]["Vessel"]]

DeparturesOn(d) ==
    [k \in 1..Len(ItinerariesOn(d)) |-> ItinerariesOn(d)[k]["Departure Time"]]

\* C8 as stated: ... and 02/06/2025 has the vessels Champion Jet 1, Tera Jet
\* departing at 07:00 and 10:00.
C8_Original ==
    pc = "returned" =>
        /\ C8_General
        /\ DateText(2025, 6, 2) \in ServedDates =>
               /\ VesselsOn(DateText(2025, 6, 2)) = <<"Champion Jet 1", "Tera Jet">>
               /\ DeparturesOn(DateText(2025, 6, 2)) =
                      << <<"0", "7", ":", "0", "0">>, <<"1", "0", ":", "0", "0">> >>

\* C8 amended: slot i takes the vessel at index i mod 4 of the list and
\* departs at 07:00 + i * 3h; 02/06/2025 has exactly two itineraries, with
\* the vessels Champion Jet 1, Champion Jet 2 departing at 07:00 and 10:00.
C8_VesselsAndDepartures ==
    pc = "returned" =>
        /\ C8_General
        /\ DateText(2025, 6, 2) \in ServedDates =>
               /\ VesselsOn(DateText(2025, 6, 2)) =
                      <<"Champion Jet 1", "Champion Jet 2">>
               /\ DeparturesOn(DateText(2025, 6, 2)) =
                      << <<"0", "7", ":", "0", "0">>, <<"1", "0", ":", "0", "0">> >>

\* a result that covers 02/06/2025, with its two itineraries
C8_Witness ==
    /\ pc = "returned"
    /\ Len(ItinerariesOn(DateText(2025, 6, 2))) = 2

\* the price slot i of civil date t must carry
ExpectedPrice(slot, t) ==
    <<"€">> \o Digits(45 + 15 * slot + (IF t.m \in 6..9 THEN 30 ELSE 0))

\* C9: the price of the itinerary at slot i is 45 + 15 * i, plus 30 iff the
\* month is June to September; the weekend's 20 is in no record (slots 0 and
\* 1 of a June weekday cost 75 and 90).
C9_Prices ==
    /\ \A k \in 1..Len(itineraries_data) :
           itineraries_data[k]["Price"] =
               ExpectedPrice(SlotOf(itineraries_data, k),
                             StrptimeYmd(itineraries_data[k]["Date"]))
    /\ \A k \in 1..Len(result.itineraries.rows) :
           LET r == result.itineraries.rows[k]
               t == StrptimeYmd(r["Date"])
               slot == SlotOf(result.itineraries.rows, k)
           IN  /\ r["Price"] = ExpectedPrice(slot, t)
               /\ (t.m = 6 /\ slot = 0) => r["Price"] = <<"€", "7", "5">>
               /\ (t.m = 6 /\ slot = 1) => r["Price"] = <<"€", "9", "0">>

\* a result with a June weekday and one outside the season
C9_Witness ==
    /\ pc = "returned"
    /\ Len(ItinerariesOn(DateText(2025, 6, 2))) = 2
    /\ \E r \in RowSet(result.itineraries.rows) :
           StrptimeYmd(r["Date"]).m = 5 /\ r["Price"] = <<"€", "4", "5">>

\* C10: the tables scrape_seajets returns keep their columns when they have
\* no rows (an empty range, only weekend days, no available itinerary).
C10_ColumnsKept ==
    pc = "returned" =>
        /\ result.itineraries.columns = ItineraryKeys
        /\ result.seats.columns = SeatKeys

\* the civil date of a row, as its ordinal
RowDay(r) ==
    LET t == StrptimeYmd(r["Date"]) IN Ymd2Ord(t.y, t.m, t.d)

\* the position of a category in the fixed order
CategoryIndex(name) ==
    CHOOSE c \in 1..Len(seat_categories) : seat_categories[c].name = name

\* the position, in the returned itineraries, of the itinerary of seat row s
ItineraryOf(s) == CHOOSE k \in Matches(s) : TRUE

\* C11: the returned itineraries are in generation order, by increasing date
\* and within a date by increasing slot (departure); the returned seat rows
\* follow the order of their itineraries, and within one itinerary the order
\* Economy, Business, VIP, Premium.
C11_GenerationOrder ==
    pc = "returned" =>
        /\ \A k \in 1..(Len(result.itineraries.rows) - 1) :
               LET a == result.itineraries.rows[k]
                   b == result.itineraries.rows[k + 1]
               IN  \/ RowDay(a) < RowDay(b)
                   \/ /\ RowDay(a) = RowDay(b)
                      /\ ClockMinutes(a["Departure Time"])
                             < ClockMinutes(b["Departure Time"])
                      /\ SlotOf(result.itineraries.rows, k + 1)
                             = SlotOf(result.itineraries.rows, k) + 1
        /\ \A k \in 1..(Len(result.seats.rows) - 1) :
               LET a == result.seats.rows[k]
                   b == result.seats.rows[k + 1]
               IN  \/ ItineraryOf(a) < ItineraryOf(b)
                   \/ /\ ItineraryOf(a) = ItineraryOf(b)
                      /\ CategoryIndex(a["Category"]) < CategoryIndex(b["Category"])

\* a result over two served dates, one of them with two slots, with the seat
\* rows of two itineraries
C11_Witness ==
    /\ pc = "returned"
    /\ \E k \in 1..(Len(result.itineraries.rows) - 1) :
           RowDay(result.itineraries.rows[k]) < RowDay(result.itineraries.rows[k + 1])
    /\ \E k \in 1..(Len(result.itineraries.rows) - 1) :
           RowDay(result.itineraries.rows[k]) = RowDay(result.itineraries.rows[k + 1])
    /\ Len(result.seats.rows) >= 8

\* C15: the arrival of every itinerary is 3 hours 30 minutes after its
\* departure, which is what its Duration "3h 30m" says; both are clock times
\* of the same day, the departure at most 13:00, the arrival at most 16:30.
C15_DurationMatches ==
    \A r \in RowSet(itineraries_data) \cup RowSet(result.itineraries.rows) :
        LET dep == r["Departure Time"]
            arr == r["Arrival Time"]
        IN  /\ Len(dep) = 5 /\ dep[3] = ":" /\ Len(arr) = 5 /\ arr[3] = ":"
            /\ AllDigits(SubSeq(dep, 1, 2)) /\ AllDigits(SubSeq(dep, 4, 5))
            /\ AllDigits(SubSeq(arr, 1, 2)) /\ AllDigits(SubSeq(arr, 4, 5))
            /\ ParseInt(SubSeq(dep, 4, 5)) < 60 /\ ParseInt(SubSeq(arr, 4, 5)) < 60
            /\ ClockMinutes(arr) - ClockMinutes(dep) = 3 * 60 + 30
            /\ r["Duration"] = "3h 30m"
            /\ ClockMinutes(dep) <= 13 * 60
            /\ ClockMinutes(arr) <= 16 * 60 + 30

\* the last slot of a day with three: 13:00 to 16:30
C15_Witness ==
    /\ pc = "returned"
    /\ \E r \in RowSet(result.itineraries.rows) :
           /\ r["Departure Time"] = <<"1", "3", ":", "0", "0">>
           /\ r["Arrival Time"] = <<"1", "6", ":", "3", "0">>

(* ======================== properties of the routes ===================== *)
\* a step in which a /scrape request is answered without scrape_seajets
\* having run
Rejected == pc = "idle" /\ pc' = "idle" /\ nreq' = nreq + 1

\* what C13 says of one step: scrape_seajets only starts on two dates that
\* parse, and a request it is not started for gets the invalid-format answer
\* while the records and the stored results stay as they were
C13_Step ==
    /\ (pc = "idle" /\ pc' = "dates") =>
           StrptimeOk(start_date') /\ StrptimeOk(end_date')
    /\ Rejected =>
           /\ response'.status = 400
           /\ response'.body = "Invalid date format"
           /\ session' = session
           /\ UNCHANGED <<itineraries_data, seats_data, result>>

\* C13: a /scrape request whose start or end date does not parse as
\* day/month/year, or is missing, is rejected with the invalid-date-format
\* error before any record is generated, and leaves the stored results alone.
C13_InvalidDateRejected == [][C13_Step]_vars

\* the lines of a CSV file are the given records, cell by cell
LinesAre(csv, records, keys) ==
    /\ Len(csv.lines) = Len(records)
    /\ Len(records) > 0 => csv.header = keys
    /\ \A k \in 1..Len(records) :
           /\ Len(csv.lines[k]) = Len(keys)
           /\ \A c \in 1..Len(keys) :
                  csv.lines[k][c] =
                      (IF keys[c] = "Available"
                       THEN (IF records[k][keys[c]] THEN "True" ELSE "False")
                       ELSE records[k][keys[c]])

\* a step in which a scrape succeeds: scrape() stores what scrape_seajets
\* returned
Succeeds == pc = "returned" /\ pc' = "idle"

\* what C14 says of one step: the stored results become the rows of the
\* scrape that succeeds in it and change in no other step; an export answer
\* holds the stored rows, and there is one only when results are stored,
\* 'No results found' (400) only when none are
C14_Step ==
    /\ Succeeds =>
           /\ session'.has
           /\ session'.results.itineraries = result.itineraries.rows
           /\ session'.results.seats = result.seats.rows
    /\ ~Succeeds => session' = session
    /\ response'.body = "export" =>
           /\ session'.has
           /\ response'.status = 200
           /\ LinesAre(response'.files.itineraries_csv,
                       session'.results.itineraries, ItineraryKeys)
           /\ LinesAre(response'.files.seats_csv,
                       session'.results.seats, SeatKeys)
    /\ response'.body = "No results found" =>
           response'.status = 400 /\ ~session'.has

\* C14: within a session an export returns data only after a successful
\* scrape and 'No results found' (400) otherwise; the exported rows are those
\* of the most recent successful scrape; an export, a results view or a
\* failed scrape does not change the stored results.
C14_ExportFollowsScrape == [][C14_Step]_vars

\* an export with rows, after two /scrape requests have been answered
C14_Witness ==
    /\ response.body = "export"
    /\ nreq = 2
    /\ Len(response.files.itineraries_csv.lines) > 0
    /\ Len(response.files.seats_csv.lines) > 0

(* ================= properties of a scraper used again ================== *)
\* the dates of the current call's range
RangeDates == {dates_to_scrape[k] : k \in 1..Len(dates_to_scrape)}

\* how many itineraries one call generates for the date text d
SlotsOf(d) ==
    IF CivilWeekend(StrptimeYmd(d)) THEN 0
    ELSE Min(3, Max(1, StrptimeYmd(d).d % 4))

\* the itineraries of a table that are bookable
AvailableRows(rows) ==
    LET Open(r) == r["Available"] IN SelectSeq(rows, Open)

\* C12: each scrape_seajets call on a scraper starts from empty
\* accumulators, so whatever calls went before on the same object, the
\* accumulators and the returned tables hold the records generated for the
\* dates of the latest call's range, once each, and none from an earlier
\* call.
C12_FreshAccumulators ==
    /\ (pc = "dates" /\ date_idx = 1) =>
           itineraries_data = <<>> /\ seats_data = <<>>
    /\ InScrape =>
           /\ \A r \in RowSet(itineraries_data) \cup RowSet(seats_data) :
                  r["Date"] \in RangeDates
           /\ \A d \in RangeDates :
                  Len(RowsOn(itineraries_data, d)) <= SlotsOf(d)
           /\ Len(seats_data) <= 4 * Len(AvailableRows(itineraries_data))
    /\ pc = "returned" =>
           /\ result.itineraries.rows = itineraries_data
           /\ result.seats.rows = seats_data
           /\ \A d \in RangeDates :
                  Len(RowsOn(result.itineraries.rows, d)) = SlotsOf(d)
           /\ Len(result.seats.rows)
                  = 4 * Len(AvailableRows(result.itineraries.rows))

\* the second call on a scraper has generated itineraries and seats and is
\* about to return, while the tables of the first call, with a record dated
\* outside the second call's range, are still around
C12_Witness ==
    /\ nreq = 2
    /\ pc = "dates" /\ date_idx > Len(dates_to_scrape)
    /\ Len(itineraries_data) > 0
    /\ Len(seats_data) > 0
    /\ \E r \in RowSet(result.itineraries.rows) : r["Date"] \notin RangeDates

====
